---- MODULE Spec2Model ----
(***************************************************************************)
(* State-machine model of contracts/FundingRoundFactory.sol: the role      *)
(* registry, the round ledger, the end-round policy and the               *)
(* transferMatchingFunds decision procedure.                               *)
(*                                                                         *)
(* Every public function is an operator from the storage at call entry to *)
(* a call result (storage at exit, outcome, return value, events, token    *)
(* transfers); an action applies one function in one transaction, so a     *)
(* revert anywhere in the call restores the storage at call entry.         *)
(***************************************************************************)
EXTENDS Integers, Sequences, FiniteSets, TLC

\* ------------------------------------------------------------------ bounds
\* contracts the factory may deploy in one behaviour
MaxRounds == 4
\* highest block number the chain reaches in one behaviour
MaxBlock == 1
\* width of the unsigned integers of the model (uint256 in the source)
UintBits == 3

\* --------------------------------------------------------------- addresses
Null == <<"null", 0>>
Acct(i) == <<"acct", i>>
Round(k) == <<"round", k>>
Maci(i) == <<"maci", i>>
Token(i) == <<"token", i>>

\* the deployer: Ownable's constructor makes msg.sender the owner
Owner == Acct(1)
\* the externally owned accounts that send transactions
Accounts == {Owner, Acct(2)}
\* the identifiers the Witness attests, and the tokens the Owner configures
MaciIds == {Null, Maci(1)}
Tokens == {Token(1)}

RECURSIVE Pow2(_)
Pow2(n) == IF n = 0 THEN 1 ELSE 2 * Pow2(n - 1)
\* uint256 arithmetic is modulo 2^256 (solidity ^0.6.2 does not check overflow)
Modulus == Pow2(UintBits)
MaxUint == Modulus - 1
\* the durations the Owner sets
Durations == {0, 1, MaxUint}

\* ----------------------------------------------------------------- storage
VARIABLES
  coordinator, maci, token, witness,
  currentRound, previousRound,
  newMaci, previousRoundValid, newCoordinatorSet,
  duration, roundEndBlockNumber,
  maciByRound,
  nonce,        \* number of contracts this contract has created (CREATE nonce)
  blockNumber,  \* block.number
  lastCall      \* the last transaction sent to the contract and its result

\* the web client's registry queries (vue-app/src/api/recipient-registry-optimistic.ts)
VARIABLES
  requestSubmittedEvents,  \* the four event logs queryFilter returned
  requestRejectedEvents,
  recipientAddedEvents,
  recipientRemovedEvents,
  registryInfo,            \* getRequests' parameter
  startBlock,              \* getProjects' optional parameter
  now,                     \* the wall clock, in seconds
  pc,                      \* the query that is running
  index,                   \* events the for loop has consumed
  requests,                \* getRequests' result array
  projects                 \* getProjects' result array

factoryVars == <<coordinator, maci, token, witness, currentRound, previousRound,
                 newMaci, previousRoundValid, newCoordinatorSet, duration,
                 roundEndBlockNumber, maciByRound, nonce, blockNumber, lastCall>>

registryVars == <<requestSubmittedEvents, requestRejectedEvents,
                  recipientAddedEvents, recipientRemovedEvents, registryInfo,
                  startBlock, now, pc, index, requests, projects>>

vars == <<coordinator, maci, token, witness, currentRound, previousRound,
          newMaci, previousRoundValid, newCoordinatorSet, duration,
          roundEndBlockNumber, maciByRound, nonce, blockNumber, lastCall,
          requestSubmittedEvents, requestRejectedEvents,
          recipientAddedEvents, recipientRemovedEvents, registryInfo,
          startBlock, now, pc, index, requests, projects>>

\* the contract's storage as one value
State ==
  [coordinator |-> coordinator, maci |-> maci, token |-> token,
   witness |-> witness, currentRound |-> currentRound,
   previousRound |-> previousRound, newMaci |-> newMaci,
   previousRoundValid |-> previousRoundValid,
   newCoordinatorSet |-> newCoordinatorSet, duration |-> duration,
   roundEndBlockNumber |-> roundEndBlockNumber,
   maciByRound |-> maciByRound, nonce |-> nonce]

\* a mapping nothing was written to: every key reads as zero
EmptyMapping == [a \in {} |-> Null]

\* storage of a contract before its constructor runs: every slot is zero
ZeroStorage ==
  [coordinator |-> Null, maci |-> Null, token |-> Null, witness |-> Null,
   currentRound |-> Null, previousRound |-> Null, newMaci |-> FALSE,
   previousRoundValid |-> FALSE, newCoordinatorSet |-> FALSE, duration |-> 0,
   roundEndBlockNumber |-> 0, maciByRound |-> EmptyMapping,
   nonce |-> 0]

\* ------------------------------------------------------------ call results
NoRet == "none"
Event(name, arg) == <<name, arg>>

\* normal completion of a function body
Ok(s, ret, ev) ==
  [st |-> s, outcome |-> "ok", ret |-> ret, events |-> ev, transfers |-> <<>>]

\* revert(reason) / a failed require(cond, reason)
Revert(s, reason) ==
  [st |-> s, outcome |-> reason, ret |-> NoRet, events |-> <<>>,
   transfers |-> <<>>]

NotOwner == "Ownable: caller is not the owner"
NotCoordinator == "Sender is not the coordinator"
NotWitness == "Sender is not the witness"
InvalidEndRound == "Invalid end round conditions"
NoCoordinator == "No coordinator"
InvalidTransfer == "Invalid conditions for transfer of matching funds"

\* a transaction: a call that does not end "ok" leaves the storage it entered with
Transact(s0, r) ==
  IF r.outcome = "ok" THEN r
  ELSE [r EXCEPT !.st = s0, !.events = <<>>, !.transfers = <<>>]

\* --------------------------------------------------------------- functions
getCurrentRound(s) == s.currentRound
getPreviousRound(s) == s.previousRound
getMaci(s, round) ==
  IF round \in DOMAIN s.maciByRound THEN s.maciByRound[round] ELSE Null

\* new FundingRound(this, token): CREATE derives the address from the nonce
deployNewRound(s) ==
  [handle |-> Round(s.nonce + 1), st |-> [s EXCEPT !.nonce = @ + 1]]

\* mutant: the newCoordinatorSet override left out of the guard
endRoundCond_NoFlag(s, blk) ==
  \/ blk >= s.roundEndBlockNumber
  \/ s.coordinator = Null

\* mutant: the deadline compared with > instead of >=
endRoundCond_Strict(s, blk) ==
  \/ blk > s.roundEndBlockNumber
  \/ s.newCoordinatorSet = TRUE
  \/ s.coordinator = Null

endRoundCond(s, blk) ==
  \/ blk >= s.roundEndBlockNumber
  \/ s.newCoordinatorSet = TRUE
  \/ s.coordinator = Null

\* mutant: currentRound assigned before previousRound is saved
endRound_Swapped(s, blk) ==
  IF endRoundCond(s, blk)
  THEN LET d  == deployNewRound(s)
           s1 == [d.st EXCEPT !.currentRound = d.handle]
           s2 == [s1 EXCEPT !.previousRound = s1.currentRound]
           s3 == [s2 EXCEPT !.roundEndBlockNumber = (blk + s2.duration) % Modulus]
       IN  Ok(s3, NoRet, <<Event("NewRound", s2.currentRound)>>)
  ELSE Revert(s, InvalidEndRound)

\* mutant: a successful endRound also clears newCoordinatorSet
endRound_ClearsFlag(s, blk) ==
  IF endRoundCond(s, blk)
  THEN LET d  == deployNewRound(s)
           s1 == [d.st EXCEPT !.previousRound = d.st.currentRound]
           s2 == [s1 EXCEPT !.currentRound = d.handle]
           s3 == [s2 EXCEPT !.roundEndBlockNumber = (blk + s2.duration) % Modulus]
           s4 == [s3 EXCEPT !.newCoordinatorSet = FALSE]
       IN  Ok(s4, NoRet, <<Event("NewRound", s2.currentRound)>>)
  ELSE Revert(s, InvalidEndRound)

endRound(s, blk) ==
  IF endRoundCond(s, blk)
  THEN LET d  == deployNewRound(s)
           s1 == [d.st EXCEPT !.previousRound = d.st.currentRound]
           s2 == [s1 EXCEPT !.currentRound = d.handle]
           s3 == [s2 EXCEPT !.roundEndBlockNumber = (blk + s2.duration) % Modulus]
       IN  Ok(s3, NoRet, <<Event("NewRound", s2.currentRound)>>)
  ELSE Revert(s, InvalidEndRound)

\* mutant: the onlyWitness modifier left out
setMACI_NoModifier(s, sender, m) ==
  LET s1 == [s EXCEPT !.maci = m]
      s2 == [s1 EXCEPT !.newMaci = TRUE]
  IN  Ok(s2, NoRet, <<Event("MaciSet", m)>>)

setMACI(s, sender, m) ==
  IF sender # s.witness THEN Revert(s, NotWitness)
  ELSE LET s1 == [s EXCEPT !.maci = m]
           s2 == [s1 EXCEPT !.newMaci = TRUE]
       IN  Ok(s2, NoRet, <<Event("MaciSet", m)>>)

\* mutant: the require on the coordinator left out
transferMatchingFunds_NoRequire(s, sender) ==
  IF sender # Owner THEN Revert(s, NotOwner)
  ELSE IF s.newCoordinatorSet = TRUE
  THEN LET s1 == [s EXCEPT !.newCoordinatorSet = FALSE]
           s2 == [s1 EXCEPT !.newMaci = FALSE]
           s3 == [s2 EXCEPT !.previousRoundValid = FALSE]
       IN  Ok(s3, "false", <<Event("NewMaciRequired", Null)>>)
  ELSE IF s.newMaci /\ s.previousRoundValid
  THEN LET s1 == [s EXCEPT !.newMaci = FALSE]
       IN  Ok(s1, "true", <<Event("RoundFinalized", s.previousRound)>>)
  ELSE Revert(s, InvalidTransfer)

\* mutant: the redo branch writes true to previousRoundValid
transferMatchingFunds_RedoValidates(s, sender) ==
  IF sender # Owner THEN Revert(s, NotOwner)
  ELSE IF s.coordinator = Null THEN Revert(s, NoCoordinator)
  ELSE IF s.newCoordinatorSet = TRUE
  THEN LET s1 == [s EXCEPT !.newCoordinatorSet = FALSE]
           s2 == [s1 EXCEPT !.newMaci = FALSE]
           s3 == [s2 EXCEPT !.previousRoundValid = TRUE]
       IN  Ok(s3, "false", <<Event("NewMaciRequired", Null)>>)
  ELSE IF s.newMaci /\ s.previousRoundValid
  THEN LET s1 == [s EXCEPT !.newMaci = FALSE]
       IN  Ok(s1, "true", <<Event("RoundFinalized", s.previousRound)>>)
  ELSE Revert(s, InvalidTransfer)

\* mutant: the redo branch does not clear newMaci
transferMatchingFunds_KeepsMaci(s, sender) ==
  IF sender # Owner THEN Revert(s, NotOwner)
  ELSE IF s.coordinator = Null THEN Revert(s, NoCoordinator)
  ELSE IF s.newCoordinatorSet = TRUE
  THEN LET s1 == [s EXCEPT !.newCoordinatorSet = FALSE]
           s3 == [s1 EXCEPT !.previousRoundValid = FALSE]
       IN  Ok(s3, "false", <<Event("NewMaciRequired", Null)>>)
  ELSE IF s.newMaci /\ s.previousRoundValid
  THEN LET s1 == [s EXCEPT !.newMaci = FALSE]
       IN  Ok(s1, "true", <<Event("RoundFinalized", s.previousRound)>>)
  ELSE Revert(s, InvalidTransfer)

transferMatchingFunds(s, sender) ==
  IF sender # Owner THEN Revert(s, NotOwner)
  ELSE IF s.coordinator = Null THEN Revert(s, NoCoordinator)
  ELSE IF s.newCoordinatorSet = TRUE
  THEN LET s1 == [s EXCEPT !.newCoordinatorSet = FALSE]
           s2 == [s1 EXCEPT !.newMaci = FALSE]
           s3 == [s2 EXCEPT !.previousRoundValid = FALSE]
       IN  Ok(s3, "false", <<Event("NewMaciRequired", Null)>>)
  ELSE IF s.newMaci /\ s.previousRoundValid
  THEN LET s1 == [s EXCEPT !.newMaci = FALSE]
       IN  Ok(s1, "true", <<Event("RoundFinalized", s.previousRound)>>)
  ELSE Revert(s, InvalidTransfer)

\* the source emits NewToken(_coordinator), a name setToken does not declare;
\* the event is recorded with the function's parameter
setToken(s, sender, t) ==
  IF sender # Owner THEN Revert(s, NotOwner)
  ELSE Ok([s EXCEPT !.token = t], NoRet, <<Event("NewToken", t)>>)

\* mutant: endRound called before newCoordinatorSet is set
setCoordinator_EndFirst(s, sender, c, blk) ==
  IF sender # Owner THEN Revert(s, NotOwner)
  ELSE LET s1 == [s EXCEPT !.coordinator = c]
           r  == endRound(s1, blk)
           r2 == [r EXCEPT !.st.newCoordinatorSet = TRUE]
       IN  [r2 EXCEPT !.events = <<Event("CoordinatorTransferred", c)>> \o @]

setCoordinator(s, sender, c, blk) ==
  IF sender # Owner THEN Revert(s, NotOwner)
  ELSE LET s1 == [s EXCEPT !.coordinator = c]
           s2 == [s1 EXCEPT !.newCoordinatorSet = TRUE]
           r  == endRound(s2, blk)
       IN  [r EXCEPT !.events = <<Event("CoordinatorTransferred", c)>> \o @]

\* mutant: the onlyOwner modifier left out
setWitness_NoModifier(s, sender, w) ==
  Ok([s EXCEPT !.witness = w], NoRet, <<Event("WitnessTransferred", w)>>)

setWitness(s, sender, w) ==
  IF sender # Owner THEN Revert(s, NotOwner)
  ELSE Ok([s EXCEPT !.witness = w], NoRet, <<Event("WitnessTransferred", w)>>)

setRoundDuration(s, sender, d) ==
  IF sender # Owner THEN Revert(s, NotOwner)
  ELSE Ok([s EXCEPT !.duration = d], NoRet, <<Event("NewRoundDuration", d)>>)

coordinatorQuit(s, sender, blk) ==
  IF sender # s.coordinator THEN Revert(s, NotCoordinator)
  ELSE LET s1 == [s EXCEPT !.coordinator = Null]
           r  == endRound(s1, blk)
       IN  [r EXCEPT !.events = <<Event("CoordinatorTransferred", s1.coordinator)>> \o @]

\* mutant: the pending attestation is not cleared
witnessQuit_KeepsMaci(s, sender) ==
  IF sender # s.witness THEN Revert(s, NotWitness)
  ELSE LET s1 == [s EXCEPT !.witness = Null]
       IN  Ok(s1, NoRet, <<Event("WitnessTransferred", s1.witness)>>)

witnessQuit(s, sender) ==
  IF sender # s.witness THEN Revert(s, NotWitness)
  ELSE LET s1 == [s EXCEPT !.witness = Null]
           s2 == [s1 EXCEPT !.newMaci = FALSE]
       IN  Ok(s2, NoRet, <<Event("WitnessTransferred", s1.witness)>>)

\* mutant: the coordinator assigned directly instead of through setCoordinator
constructor_DirectAssign(first, blk) ==
  endRound([ZeroStorage EXCEPT !.coordinator = first], blk)

\* constructor(_firstCoordinator), sent by the deployer (the Owner)
constructor(first, blk) ==
  LET r1 == setCoordinator(ZeroStorage, Owner, first, blk)
      r2 == endRound(r1.st, blk)
  IN  IF r1.outcome # "ok" THEN r1
      ELSE [r2 EXCEPT !.events = r1.events \o @]

\* no registry query is running
NoQuery ==
  /\ requestSubmittedEvents = <<>>
  /\ requestRejectedEvents = <<>>
  /\ recipientAddedEvents = <<>>
  /\ recipientRemovedEvents = <<>>
  /\ registryInfo = [challengePeriodDuration |-> 0]
  /\ startBlock = [given |-> FALSE, value |-> 0]
  /\ now = 0
  /\ pc = "idle"
  /\ index = 0
  /\ requests = <<>>
  /\ projects = <<>>

\* ----------------------------------------------------------------- actions
CallRecord(op, sender, arg, r) ==
  [op |-> op, sender |-> sender, arg |-> arg, outcome |-> r.outcome,
   ret |-> r.ret, events |-> r.events, transfers |-> r.transfers]

\* the storage after a transaction, and the record of the transaction
Commit(op, sender, arg, r) ==
  /\ r.st.nonce <= MaxRounds
  /\ coordinator' = r.st.coordinator
  /\ maci' = r.st.maci
  /\ token' = r.st.token
  /\ witness' = r.st.witness
  /\ currentRound' = r.st.currentRound
  /\ previousRound' = r.st.previousRound
  /\ newMaci' = r.st.newMaci
  /\ previousRoundValid' = r.st.previousRoundValid
  /\ newCoordinatorSet' = r.st.newCoordinatorSet
  /\ duration' = r.st.duration
  /\ roundEndBlockNumber' = r.st.roundEndBlockNumber
  /\ maciByRound' = r.st.maciByRound
  /\ nonce' = r.st.nonce
  /\ lastCall' = CallRecord(op, sender, arg, r)
  /\ UNCHANGED blockNumber
  /\ UNCHANGED registryVars

Init ==
  \E first \in Accounts \cup {Null}, blk \in 0..MaxBlock :
    LET r == Transact(ZeroStorage, constructor(first, blk))
    IN  /\ r.outcome = "ok"
        /\ coordinator = r.st.coordinator
        /\ maci = r.st.maci
        /\ token = r.st.token
        /\ witness = r.st.witness
        /\ currentRound = r.st.currentRound
        /\ previousRound = r.st.previousRound
        /\ newMaci = r.st.newMaci
        /\ previousRoundValid = r.st.previousRoundValid
        /\ newCoordinatorSet = r.st.newCoordinatorSet
        /\ duration = r.st.duration
        /\ roundEndBlockNumber = r.st.roundEndBlockNumber
        /\ maciByRound = r.st.maciByRound
        /\ nonce = r.st.nonce
        /\ blockNumber = blk
        /\ lastCall = CallRecord("constructor", Owner, first, r)
        /\ NoQuery

EndRound ==
  \E sender \in Accounts :
    Commit("endRound", sender, Null, Transact(State, endRound(State, blockNumber)))

SetMACI ==
  \E sender \in Accounts, m \in MaciIds :
    Commit("setMACI", sender, m, Transact(State, setMACI(State, sender, m)))

TransferMatchingFunds ==
  \E sender \in Accounts :
    Commit("transferMatchingFunds", sender, Null,
           Transact(State, transferMatchingFunds(State, sender)))

SetToken ==
  \E sender \in Accounts, t \in Tokens :
    Commit("setToken", sender, t, Transact(State, setToken(State, sender, t)))

SetCoordinator ==
  \E sender \in Accounts, c \in Accounts \cup {Null} :
    Commit("setCoordinator", sender, c,
           Transact(State, setCoordinator(State, sender, c, blockNumber)))

SetWitness ==
  \E sender \in Accounts, w \in Accounts \cup {Null} :
    Commit("setWitness", sender, w, Transact(State, setWitness(State, sender, w)))

SetRoundDuration ==
  \E sender \in Accounts, d \in Durations :
    Commit("setRoundDuration", sender, d,
           Transact(State, setRoundDuration(State, sender, d)))

CoordinatorQuit ==
  \E sender \in Accounts :
    Commit("coordinatorQuit", sender, Null,
           Transact(State, coordinatorQuit(State, sender, blockNumber)))

WitnessQuit ==
  \E sender \in Accounts :
    Commit("witnessQuit", sender, Null, Transact(State, witnessQuit(State, sender)))

\* the chain produces the next block
Mine ==
  /\ blockNumber < MaxBlock
  /\ blockNumber' = blockNumber + 1
  /\ UNCHANGED <<coordinator, maci, token, witness, currentRound, previousRound,
                 newMaci, previousRoundValid, newCoordinatorSet, duration,
                 roundEndBlockNumber, maciByRound, nonce, lastCall>>
  /\ UNCHANGED registryVars

Next ==
  \/ EndRound
  \/ SetMACI
  \/ TransferMatchingFunds
  \/ SetToken
  \/ SetCoordinator
  \/ SetWitness
  \/ SetRoundDuration
  \/ CoordinatorQuit
  \/ WitnessQuit
  \/ Mine

Spec == Init /\ [][Next]_vars

\* ================================================================ registry
\* The client's read side of the optimistic recipient registry:
\* getRequests and getProjects fold the registry's event logs into lists.

\* longest RequestSubmitted / RecipientAdded / RecipientRemoved log of a query
MaxEvents == 2

ZeroAddress == "0x0000000000000000000000000000000000000000"
\* _recipient of an event: the zero address marks a removal request
Recipients == {ZeroAddress, "0x00000000000000000000000000000000000000a1"}
RecipientIds == {"0x01", "0x02"}
\* _metadata as the registry stores it: any string; "" is not JSON
Metadata == {"{}", ""}
\* _timestamp of a request, challengePeriodDuration, and readings of the clock
Timestamps == {0, 1}
ChallengePeriods == {0, 1}
Clock == {1, 2}
\* block numbers of RecipientRemoved events, and values of startBlock
RemovalBlocks == {1, 2}
StartBlocks == {0, 1, 2}

\* event.args of the four events, with event.blockNumber where it is read
RequestSubmitted ==
  [_recipientId : RecipientIds, _recipient : Recipients,
   _metadata : Metadata, _timestamp : Timestamps]
RequestRejected == [_recipientId : RecipientIds]
RecipientAdded == [_recipientId : RecipientIds, _metadata : Metadata]
RecipientRemoved == [_recipientId : RecipientIds, blockNumber : RemovalBlocks]

\* the logs of at most n events over a set of events
Logs(S, n) == UNION {[1..k -> S] : k \in 0..n}
\* logs in which each id occurs at most once, in a fixed order
IdLogs(S) ==
  {<<>>} \cup {<<e>> : e \in S}
         \cup {<<e, f>> : <<e, f>> \in {p \in S \X S : p[1]._recipientId = "0x01" /\ p[2]._recipientId = "0x02"}}

\* queryFilter returns a log in the order of the chain
InBlockOrder(events) ==
  \A j, k \in 1..Len(events) : j < k => events[j].blockNumber <= events[k].blockNumber

\* an exception propagating out of a call
Thrown == [thrown |-> TRUE]
Returned(v) == [thrown |-> FALSE, value |-> v]

\* JSON.parse: throws SyntaxError on a string that is not JSON
JSON_parse(text) == IF text = "{}" THEN Returned("object") ELSE Thrown

\* Array.prototype.find with the predicate `args._recipientId === id`:
\* the first matching event, or undefined
find(events, id) ==
  LET hits == {k \in 1..Len(events) : events[k]._recipientId = id}
  IN  IF hits = {} THEN [found |-> FALSE]
      ELSE [found |-> TRUE,
            event |-> events[CHOOSE k \in hits : \A j \in hits : k <= j]]

\* name, description and imageUrl are copied from the metadata and left out
decodeRequest(requestSubmittedEvent) ==
  LET args == requestSubmittedEvent
      metadata == JSON_parse(args._metadata)
  IN  IF metadata.thrown THEN Thrown
      ELSE Returned([id |-> args._recipientId,
                     type |-> IF args._recipient = ZeroAddress
                              THEN "Removal" ELSE "Registration",
                     timestamp |-> args._timestamp,
                     status |-> "Submitted",
                     address |-> args._recipient])

\* mutant: the challenge period tested after the event lookups
getRequestsBody_AcceptedLast(event, list, clock) ==
  LET decoded == decodeRequest(event)
  IN  IF decoded.thrown THEN list
      ELSE
        LET request0 == decoded.value
            rejected == find(requestRejectedEvents, request0.id)
            request1 ==
              IF rejected.found THEN [request0 EXCEPT !.status = "Rejected"]
              ELSE IF request0.type = "Removal"
              THEN IF find(recipientRemovedEvents, request0.id).found
                   THEN [request0 EXCEPT !.status = "Executed"] ELSE request0
              ELSE IF find(recipientAddedEvents, request0.id).found
                   THEN [request0 EXCEPT !.status = "Executed"] ELSE request0
            request2 ==
              IF request1.timestamp + registryInfo.challengePeriodDuration < clock
              THEN [request1 EXCEPT !.status = "Accepted"] ELSE request1
        IN  Append(list, request2)

\* one pass of getRequests' for loop over `event`: the array after the pass
getRequestsBody(event, list, clock) ==
  LET decoded == decodeRequest(event)
  IN  IF decoded.thrown THEN list
      ELSE
        LET request0 == decoded.value
            request1 ==
              IF request0.timestamp + registryInfo.challengePeriodDuration < clock
              THEN [request0 EXCEPT !.status = "Accepted"] ELSE request0
            rejected == find(requestRejectedEvents, request1.id)
            request2 ==
              IF rejected.found THEN [request1 EXCEPT !.status = "Rejected"]
              ELSE IF request1.type = "Removal"
              THEN IF find(recipientRemovedEvents, request1.id).found
                   THEN [request1 EXCEPT !.status = "Executed"] ELSE request1
              ELSE IF find(recipientAddedEvents, request1.id).found
                   THEN [request1 EXCEPT !.status = "Executed"] ELSE request1
        IN  Append(list, request2)

\* name, description, imageUrl, address and index are copied and left out
decodeRecipientAdded(event) ==
  LET args == event
      metadata == JSON_parse(args._metadata)
  IN  IF metadata.thrown THEN Thrown
      ELSE Returned([id |-> args._recipientId,
                     isHidden |-> FALSE,
                     isLocked |-> FALSE])

\* !startBlock: undefined and 0 are falsy
Falsy(n) == ~n.given \/ n.value = 0

\* mutant: the removal block compared with < instead of <=
getProjectsBody_Strict(event, list) ==
  LET decoded == decodeRecipientAdded(event)
  IN  IF decoded.thrown THEN list
      ELSE
        LET project0 == decoded.value
            removed == find(recipientRemovedEvents, project0.id)
            project1 ==
              IF removed.found
              THEN IF Falsy(startBlock)
                      \/ (~Falsy(startBlock)
                          /\ removed.event.blockNumber < startBlock.value)
                   THEN [project0 EXCEPT !.isHidden = TRUE]
                   ELSE [project0 EXCEPT !.isLocked = TRUE]
              ELSE project0
        IN  Append(list, project1)

\* one pass of getProjects' for loop over `event`: the array after the pass
getProjectsBody(event, list) ==
  LET decoded == decodeRecipientAdded(event)
  IN  IF decoded.thrown THEN list
      ELSE
        LET project0 == decoded.value
            removed == find(recipientRemovedEvents, project0.id)
            project1 ==
              IF removed.found
              THEN IF Falsy(startBlock)
                      \/ (~Falsy(startBlock)
                          /\ removed.event.blockNumber <= startBlock.value)
                   THEN [project0 EXCEPT !.isHidden = TRUE]
                   ELSE [project0 EXCEPT !.isLocked = TRUE]
              ELSE project0
        IN  Append(list, project1)

\* the factory is not part of a query: its storage stays as deployed code
\* without state, and no transaction is recorded
NoFactory ==
  /\ coordinator = ZeroStorage.coordinator
  /\ maci = ZeroStorage.maci
  /\ token = ZeroStorage.token
  /\ witness = ZeroStorage.witness
  /\ currentRound = ZeroStorage.currentRound
  /\ previousRound = ZeroStorage.previousRound
  /\ newMaci = ZeroStorage.newMaci
  /\ previousRoundValid = ZeroStorage.previousRoundValid
  /\ newCoordinatorSet = ZeroStorage.newCoordinatorSet
  /\ duration = ZeroStorage.duration
  /\ roundEndBlockNumber = ZeroStorage.roundEndBlockNumber
  /\ maciByRound = ZeroStorage.maciByRound
  /\ nonce = ZeroStorage.nonce
  /\ blockNumber = 0
  /\ lastCall = [op |-> "none"]

\* getRequests entered: the four queryFilter calls have returned
InitRequests ==
  /\ NoFactory
  /\ requestSubmittedEvents \in Logs(RequestSubmitted, MaxEvents)
  /\ requestRejectedEvents \in IdLogs(RequestRejected)
  /\ recipientAddedEvents \in IdLogs({e \in RecipientAdded : e._metadata = "{}"})
  /\ recipientRemovedEvents \in IdLogs({e \in RecipientRemoved : e.blockNumber = 1})
  /\ registryInfo \in [challengePeriodDuration : ChallengePeriods]
  /\ startBlock = [given |-> FALSE, value |-> 0]
  /\ now = 1
  /\ pc = "getRequests"
  /\ index = 0
  /\ requests = <<>>
  /\ projects = <<>>

\* getProjects entered: the two queryFilter calls have returned
InitProjects ==
  /\ NoFactory
  /\ requestSubmittedEvents = <<>>
  /\ requestRejectedEvents = <<>>
  /\ recipientAddedEvents \in Logs(RecipientAdded, MaxEvents)
  /\ recipientRemovedEvents \in Logs(RecipientRemoved, MaxEvents)
  /\ InBlockOrder(recipientRemovedEvents)
  /\ registryInfo = [challengePeriodDuration |-> 0]
  /\ startBlock \in {[given |-> FALSE, value |-> 0]}
                     \cup [given : {TRUE}, value : StartBlocks]
  /\ now = 1
  /\ pc = "getProjects"
  /\ index = 0
  /\ requests = <<>>
  /\ projects = <<>>

InitRegistry == InitRequests \/ InitProjects

\* one pass of the for loop of getRequests
GetRequestsLoop ==
  /\ pc = "getRequests"
  /\ index < Len(requestSubmittedEvents)
  /\ index' = index + 1
  /\ requests' = getRequestsBody(requestSubmittedEvents[index + 1], requests, now)
  /\ UNCHANGED <<requestSubmittedEvents, requestRejectedEvents,
                 recipientAddedEvents, recipientRemovedEvents, registryInfo,
                 startBlock, now, pc, projects>>
  /\ UNCHANGED factoryVars

\* return requests
GetRequestsReturn ==
  /\ pc = "getRequests"
  /\ index = Len(requestSubmittedEvents)
  /\ pc' = "returned requests"
  /\ UNCHANGED <<requestSubmittedEvents, requestRejectedEvents,
                 recipientAddedEvents, recipientRemovedEvents, registryInfo,
                 startBlock, now, index, requests, projects>>
  /\ UNCHANGED factoryVars

\* one pass of the for loop of getProjects
GetProjectsLoop ==
  /\ pc = "getProjects"
  /\ index < Len(recipientAddedEvents)
  /\ index' = index + 1
  /\ projects' = getProjectsBody(recipientAddedEvents[index + 1], projects)
  /\ UNCHANGED <<requestSubmittedEvents, requestRejectedEvents,
                 recipientAddedEvents, recipientRemovedEvents, registryInfo,
                 startBlock, now, pc, requests>>
  /\ UNCHANGED factoryVars

\* return projects
GetProjectsReturn ==
  /\ pc = "getProjects"
  /\ index = Len(recipientAddedEvents)
  /\ pc' = "returned projects"
  /\ UNCHANGED <<requestSubmittedEvents, requestRejectedEvents,
                 recipientAddedEvents, recipientRemovedEvents, registryInfo,
                 startBlock, now, index, requests, projects>>
  /\ UNCHANGED factoryVars

\* the wall clock moves on while getRequests runs (DateTime.now() is read
\* anew in every pass of the loop)
Tick ==
  /\ pc = "getRequests"
  /\ now + 1 \in Clock
  /\ now' = now + 1
  /\ UNCHANGED <<requestSubmittedEvents, requestRejectedEvents,
                 recipientAddedEvents, recipientRemovedEvents, registryInfo,
                 startBlock, pc, index, requests, projects>>
  /\ UNCHANGED factoryVars

NextRegistry ==
  \/ GetRequestsLoop
  \/ GetRequestsReturn
  \/ GetProjectsLoop
  \/ GetProjectsReturn
  \/ Tick

SpecRegistry == InitRegistry /\ [][NextRegistry]_vars

\* ------------------------------------------------------- reading the steps
\* a step that is a transaction (Mine is the only step that changes the block)
CallStep == blockNumber' = blockNumber
\* the step is a call of function op; lastCall' is its record
Called(op) == CallStep /\ lastCall'.op = op
OwnerCalled(op) == Called(op) /\ lastCall'.sender = Owner

\* the round handles deployed so far
Deployed == {Round(k) : k \in 1..nonce}

\* the step deployed a round and moved the ledger on by exactly one round
RoundTransition ==
  /\ previousRound' = currentRound
  /\ currentRound' \notin Deployed \cup {Null}
  /\ currentRound' \in Deployed'
  /\ nonce' = nonce + 1

\* the three branches of transferMatchingFunds, read from a call record
Redo(c) ==
  c.outcome = "ok" /\ c.ret = "false" /\ c.events = <<Event("NewMaciRequired", Null)>>
Finalize(c) == c.outcome = "ok" /\ c.ret = "true"
Reject(c) == c.outcome = InvalidTransfer

FlagsReset ==
  newCoordinatorSet = FALSE /\ newMaci = FALSE /\ previousRoundValid = FALSE

\* ------------------------------------------------------------------ claims

\* C1: a call of endRound, by any caller and in any reachable state, reverts
\* with 'Invalid end round conditions' exactly when block.number <
\* roundEndBlockNumber, newCoordinatorSet is false and coordinator is not
\* zero; in every other state it succeeds and performs a round transition.
C1_EndRoundGuard ==
  [][Called("endRound") =>
       /\ lastCall'.outcome \in {"ok", InvalidEndRound}
       /\ (lastCall'.outcome = InvalidEndRound) <=>
            (/\ blockNumber < roundEndBlockNumber
             /\ newCoordinatorSet = FALSE
             /\ coordinator # Null)
       /\ lastCall'.outcome = "ok" => RoundTransition]_vars

\* C1 witness: endRound was called before the deadline, with no coordinator
\* change pending and a coordinator set, and reverted.
C1_Witness ==
  /\ lastCall.op = "endRound"
  /\ lastCall.outcome = InvalidEndRound
  /\ blockNumber < roundEndBlockNumber
  /\ coordinator # Null

\* C2: every round transition (endRound, setCoordinator, coordinatorQuit, and
\* the two the constructor performs) leaves previousRound equal to the value
\* currentRound held just before it and makes currentRound a freshly
\* deployed handle, distinct from every earlier one; the two handles change
\* in no other way.
C2_NoSkippedRound ==
  /\ (lastCall.op = "constructor" =>
        /\ lastCall.events[2] = Event("NewRound", previousRound)
        /\ lastCall.events[3] = Event("NewRound", currentRound)
        /\ previousRound # currentRound
        /\ {previousRound, currentRound} = Deployed)
  /\ [][/\ (CallStep /\ lastCall'.outcome = "ok"
              /\ lastCall'.op \in {"endRound", "setCoordinator", "coordinatorQuit"})
             => RoundTransition
        /\ (currentRound' # currentRound \/ previousRound' # previousRound)
             => RoundTransition]_vars

\* C2 witness: a round transition after construction: three rounds exist and
\* the ledger holds the last two.
C2_Witness ==
  /\ nonce > 2
  /\ currentRound = Round(nonce)
  /\ previousRound = Round(nonce - 1)

\* C3 as claimed: an Owner call of transferMatchingFunds always takes one of
\* the three branches: redo whenever newCoordinatorSet, else finalize when
\* newMaci and previousRoundValid, else reject; after redo the three flags are
\* false and the call returned false.
C3_Claim ==
  [][OwnerCalled("transferMatchingFunds") =>
       /\ IF newCoordinatorSet THEN Redo(lastCall')
          ELSE IF newMaci /\ previousRoundValid THEN Finalize(lastCall')
          ELSE Reject(lastCall')
       /\ Redo(lastCall') => FlagsReset']_vars

\* C3 as amended: the same, for calls made while a coordinator is set; with
\* the zero coordinator the call reverts with 'No coordinator' before any
\* branch, whatever the flags.
C3_Branches ==
  [][OwnerCalled("transferMatchingFunds") =>
       /\ IF coordinator = Null THEN lastCall'.outcome = NoCoordinator
          ELSE IF newCoordinatorSet THEN Redo(lastCall')
          ELSE IF newMaci /\ previousRoundValid THEN Finalize(lastCall')
          ELSE Reject(lastCall')
       /\ Redo(lastCall') => FlagsReset']_vars

\* C3 witness: the redo branch was taken after an attestation: the flags are
\* reset and the call returned false.
C3_Witness ==
  /\ lastCall.op = "transferMatchingFunds"
  /\ Redo(lastCall)
  /\ maci # Null
  /\ FlagsReset

C6_FailingCallNoChange ==
  [][CallStep =>
       LET c == lastCall'
           ownerOnly == {"setCoordinator", "setWitness", "setRoundDuration",
                         "setToken", "transferMatchingFunds"}
           lacksRole ==
             \/ c.op \in ownerOnly /\ c.sender # Owner
             \/ c.op \in {"setMACI", "witnessQuit"} /\ c.sender # witness
             \/ c.op = "coordinatorQuit" /\ c.sender # coordinator
           unmetEndRound ==
             /\ c.op = "endRound"
             /\ blockNumber < roundEndBlockNumber
             /\ newCoordinatorSet = FALSE
             /\ coordinator # Null
           refusedTransfer ==
             /\ c.op = "transferMatchingFunds"
             /\ c.sender = Owner
             /\ \/ coordinator = Null
                \/ newCoordinatorSet = FALSE /\ ~(newMaci /\ previousRoundValid)
       IN  /\ (lacksRole \/ unmetEndRound \/ refusedTransfer) => c.outcome # "ok"
           /\ c.outcome # "ok" => State' = State]_vars

\* C6 witness: the Owner's transferMatchingFunds was rejected while an
\* attestation was pending, and the attestation is still pending.
C6_Witness ==
  /\ lastCall.op = "transferMatchingFunds"
  /\ Reject(lastCall)
  /\ newMaci

C8_SetCoordinatorSucceeds ==
  [][OwnerCalled("setCoordinator") =>
       /\ lastCall'.outcome = "ok"
       /\ coordinator' = lastCall'.arg
       /\ newCoordinatorSet' = TRUE
       /\ RoundTransition]_vars

\* C8 witness: the Owner set a coordinator and the round it started has its
\* deadline ahead.
C8_Witness ==
  /\ lastCall.op = "setCoordinator"
  /\ lastCall.outcome = "ok"
  /\ coordinator = lastCall.arg
  /\ newCoordinatorSet
  /\ blockNumber < roundEndBlockNumber

\* C9: after the Owner sets a coordinator, newCoordinatorSet is true and a
\* new round was deployed with previousRound the interrupted round; the flag
\* stays true through every operation but a completed transferMatchingFunds;
\* every change of the coordinator leaves the flag true or the coordinator
\* zero; and while the flag is true and a coordinator is set, the Owner's
\* transferMatchingFunds takes the redo branch, whatever newMaci and
\* previousRoundValid are, and resets the three flags: it never finalizes.
C9_RedoAfterCoordinatorChange ==
  /\ [][(OwnerCalled("setCoordinator") /\ lastCall'.arg # Null)
          => newCoordinatorSet' = TRUE /\ RoundTransition]_vars
  /\ [][(newCoordinatorSet /\ ~newCoordinatorSet')
          => (OwnerCalled("transferMatchingFunds") /\ Redo(lastCall'))]_vars
  /\ [][coordinator' # coordinator
          => (newCoordinatorSet' \/ coordinator' = Null)]_vars
  /\ [][(/\ OwnerCalled("transferMatchingFunds")
         /\ newCoordinatorSet
         /\ coordinator # Null)
          => Redo(lastCall') /\ ~Finalize(lastCall') /\ FlagsReset']_vars

\* C9 witness: after construction a further round was deployed, the Witness
\* attested, and the Owner's transferMatchingFunds took the redo branch.
C9_Witness ==
  /\ lastCall.op = "transferMatchingFunds"
  /\ Redo(lastCall)
  /\ nonce > 2
  /\ maci # Null
  /\ coordinator # Null

\* C10 as claimed: after a Witness call setMACI(id), maci = id, the mapping
\* returns id for the current round and newMaci is true; the entries of the
\* other rounds are unchanged.
C10_Claim ==
  [][(Called("setMACI") /\ lastCall'.outcome = "ok") =>
       /\ maci' = lastCall'.arg
       /\ getMaci(State', currentRound') = lastCall'.arg
       /\ newMaci' = TRUE
       /\ \A k \in 1..nonce :
            Round(k) # currentRound =>
              getMaci(State', Round(k)) = getMaci(State, Round(k))]_vars

\* C11 as claimed: on every successful round transition the new deadline is
\* block.number + duration without wrap-around: when the sum exceeds the
\* largest integer the call fails or the deadline saturates, so the deadline
\* of a round just started is never below the block it started in.
C11_Claim ==
  [][(CallStep /\ nonce' # nonce) =>
       /\ roundEndBlockNumber' >= blockNumber
       /\ \/ roundEndBlockNumber' = blockNumber + duration
          \/ blockNumber + duration > MaxUint /\ roundEndBlockNumber' = MaxUint]_vars

\* C12 as claimed: right after construction with first coordinator C exactly
\* one round transition has occurred: currentRound is a deployed handle,
\* previousRound is the zero handle and coordinator = C.
C12_Claim ==
  lastCall.op = "constructor" =>
    /\ nonce = 1
    /\ currentRound \in Deployed
    /\ previousRound = Null
    /\ coordinator = lastCall.arg

\* C13: role gating: setCoordinator, setWitness, setRoundDuration, setToken
\* and transferMatchingFunds succeed only for the Owner, setMACI and
\* witnessQuit only for the current witness, coordinatorQuit only for the
\* current coordinator; while the witness (coordinator) is zero no caller's
\* witness-only (coordinator-only) call succeeds, and only the Owner's
\* setWitness (setCoordinator) ends that.
C13_RoleGating ==
  /\ [][(CallStep /\ lastCall'.outcome = "ok") =>
          LET c == lastCall'
          IN  /\ c.op \in {"setCoordinator", "setWitness", "setRoundDuration",
                           "setToken", "transferMatchingFunds"}
                   => c.sender = Owner
              /\ c.op \in {"setMACI", "witnessQuit"}
                   => c.sender = witness /\ witness # Null
              /\ c.op = "coordinatorQuit"
                   => c.sender = coordinator /\ coordinator # Null]_vars
  /\ [][(CallStep /\ witness = Null /\ lastCall'.op \in {"setMACI", "witnessQuit"})
          => lastCall'.outcome = NotWitness]_vars
  /\ [][(CallStep /\ coordinator = Null /\ lastCall'.op = "coordinatorQuit")
          => lastCall'.outcome = NotCoordinator]_vars
  /\ [][(witness = Null /\ witness' # Null) => OwnerCalled("setWitness")]_vars
  /\ [][(coordinator = Null /\ coordinator' # Null)
          => OwnerCalled("setCoordinator")]_vars

\* C13 witness: after the witness quit, a setMACI call was refused.
C13_Witness ==
  /\ lastCall.op = "setMACI"
  /\ lastCall.outcome = NotWitness
  /\ witness = Null
  /\ maci # Null

\* C14: every coordinatorQuit by the current coordinator succeeds, zeroes the
\* coordinator and performs a round transition in the same call; while the
\* coordinator is zero (until the Owner's setCoordinator) every
\* transferMatchingFunds fails, the Owner's with 'No coordinator', whatever
\* the three flags are, and leaves the flags unchanged.
C14_QuitThenNoCoordinator ==
  /\ [][(Called("coordinatorQuit") /\ lastCall'.sender = coordinator) =>
          /\ lastCall'.outcome = "ok"
          /\ coordinator' = Null
          /\ RoundTransition]_vars
  /\ [][(coordinator = Null /\ coordinator' # Null)
          => (OwnerCalled("setCoordinator") /\ newCoordinatorSet')]_vars
  /\ [][(Called("transferMatchingFunds") /\ coordinator = Null) =>
          /\ lastCall'.outcome # "ok"
          /\ lastCall'.sender = Owner => lastCall'.outcome = NoCoordinator
          /\ UNCHANGED <<newMaci, previousRoundValid, newCoordinatorSet>>]_vars

\* C14 witness: the coordinator quit with no coordinator change pending, and
\* the Owner's transferMatchingFunds was refused with 'No coordinator'.
C14_Witness ==
  /\ lastCall.op = "transferMatchingFunds"
  /\ lastCall.outcome = NoCoordinator
  /\ coordinator = Null
  /\ newCoordinatorSet = FALSE

\* C15 as claimed: roundEndBlockNumber is written only by a round transition,
\* which sets it to the block number of the transition plus the duration in
\* force; setRoundDuration changes duration and leaves the deadline alone;
\* a round started with duration 0 can be ended at once, in the same block.
C15_Claim ==
  /\ [][roundEndBlockNumber' # roundEndBlockNumber => RoundTransition]_vars
  /\ [][(CallStep /\ nonce' # nonce)
          => roundEndBlockNumber' = blockNumber + duration]_vars
  /\ [][(OwnerCalled("setRoundDuration"))
          => /\ duration' = lastCall'.arg
             /\ UNCHANGED roundEndBlockNumber]_vars
  /\ [][(CallStep /\ nonce' # nonce /\ duration = 0)
          => endRoundCond(State', blockNumber')]_vars

\* C16: previousRoundValid is false in every reachable state, and no
\* transferMatchingFunds call finalizes or returns true: every successful
\* call is a redo.
C16_NeverFinalizes ==
  /\ previousRoundValid = FALSE
  /\ lastCall.op = "transferMatchingFunds" =>
       /\ ~Finalize(lastCall)
       /\ lastCall.ret # "true"
       /\ lastCall.outcome = "ok" => Redo(lastCall)

\* C16 witness: an attestation is pending, a coordinator is set and has not
\* changed, and the Owner's transferMatchingFunds was still rejected.
C16_Witness ==
  /\ lastCall.op = "transferMatchingFunds"
  /\ lastCall.sender = Owner
  /\ Reject(lastCall)
  /\ newMaci
  /\ coordinator # Null
  /\ newCoordinatorSet = FALSE
  /\ nonce > 2

\* C17: newCoordinatorSet is cleared only by the redo branch of
\* transferMatchingFunds; a successful endRound leaves it as it is, so while
\* it is true or the coordinator is zero every endRound call, by any caller
\* and whatever the deadline, succeeds and replaces previousRound, and the
\* same holds again after it.
C17_FlagOutlivesRounds ==
  /\ [][(newCoordinatorSet /\ ~newCoordinatorSet')
          => (OwnerCalled("transferMatchingFunds") /\ Redo(lastCall'))]_vars
  /\ [][(Called("endRound") /\ (newCoordinatorSet \/ coordinator = Null)) =>
          /\ lastCall'.outcome = "ok"
          /\ RoundTransition
          /\ UNCHANGED <<newCoordinatorSet, coordinator>>
          /\ endRoundCond(State', blockNumber')]_vars

\* C17 witness: with the flag set and a coordinator present, endRound
\* succeeded for the second time since construction, with its deadline ahead.
C17_Witness ==
  /\ lastCall.op = "endRound"
  /\ lastCall.outcome = "ok"
  /\ newCoordinatorSet
  /\ coordinator # Null
  /\ blockNumber < roundEndBlockNumber
  /\ nonce >= 4

\* C18: the constructor leaves newCoordinatorSet true; the flag stays true
\* until a transferMatchingFunds call succeeds; and a successful call made
\* while it is true takes the redo branch and clears newMaci, whatever the
\* Witness attested before: so the first successful transferMatchingFunds of
\* a deployment is a redo that discards the attestation.
C18_FirstTransferIsRedo ==
  /\ (lastCall.op = "constructor" => newCoordinatorSet = TRUE)
  /\ [][(newCoordinatorSet /\ ~newCoordinatorSet')
          => (Called("transferMatchingFunds") /\ lastCall'.outcome = "ok")]_vars
  /\ [][(/\ Called("transferMatchingFunds")
         /\ lastCall'.outcome = "ok"
         /\ newCoordinatorSet)
          => /\ Redo(lastCall')
             /\ coordinator # Null
             /\ newMaci' = FALSE
             /\ newCoordinatorSet' = FALSE]_vars

\* C18 witness: on a fresh deployment (no round since construction) the
\* Witness attested and the Owner's transferMatchingFunds took the redo branch.
C18_Witness ==
  /\ lastCall.op = "transferMatchingFunds"
  /\ Redo(lastCall)
  /\ nonce = 2
  /\ maci # Null
  /\ newMaci = FALSE

\* --------------------------------------------------------------------- C19
\* some event of the log carries the recipient id
Carries(events, id) == \E k \in 1..Len(events) : events[k]._recipientId = id

\* the status the stated precedence gives the request of a RequestSubmitted
\* event at clock reading `clock`
StatusByPrecedence(e, clock) ==
  IF Carries(requestRejectedEvents, e._recipientId) THEN "Rejected"
  ELSE IF \/ e._recipient = ZeroAddress
             /\ Carries(recipientRemovedEvents, e._recipientId)
          \/ e._recipient # ZeroAddress
             /\ Carries(recipientAddedEvents, e._recipientId)
       THEN "Executed"
  ELSE IF e._timestamp + registryInfo.challengePeriodDuration < clock
       THEN "Accepted"
  ELSE "Submitted"

\* C19: every pass of getRequests' loop over a RequestSubmitted event whose
\* metadata does not decode leaves the result as it is, and every pass over
\* a decodable one appends exactly one entry, at the end, carrying the
\* event's recipient id, the type Removal exactly when the event's recipient
\* is the zero address (Registration otherwise), and the status chosen by
\* the precedence Rejected > Executed > Accepted > Submitted at the clock
\* reading of that pass; so the result has one entry per decodable event, in
\* event order.
C19_GetRequests ==
  [][(pc = "getRequests" /\ index' = index + 1) =>
       LET e == requestSubmittedEvents[index + 1]
       IN  IF JSON_parse(e._metadata).thrown
           THEN requests' = requests
           ELSE /\ Len(requests') = Len(requests) + 1
                /\ SubSeq(requests', 1, Len(requests)) = requests
                /\ requests'[Len(requests')].id = e._recipientId
                /\ requests'[Len(requests')].type \in {"Removal", "Registration"}
                /\ requests'[Len(requests')].type = "Removal"
                      <=> e._recipient = ZeroAddress
                /\ requests'[Len(requests')].status = StatusByPrecedence(e, now)
    ]_vars

\* C19 witness: getRequests returned after skipping an undecodable event and
\* listing a registration request that is Rejected although a RecipientAdded
\* event carries its id and its challenge period was over.
C19_Witness ==
  /\ pc = "returned requests"
  /\ Len(requestSubmittedEvents) = 2
  /\ Len(requests) = 1
  /\ JSON_parse(requestSubmittedEvents[1]._metadata).thrown
  /\ requests[1].type = "Registration"
  /\ requests[1].status = "Rejected"
  /\ Carries(recipientAddedEvents, requests[1].id)
  /\ requests[1].timestamp + registryInfo.challengePeriodDuration < 1

\* --------------------------------------------------------------------- C20
\* the block of the first RecipientRemoved event that carries the id
RemovalBlock(id) ==
  LET ks == {k \in 1..Len(recipientRemovedEvents) :
               recipientRemovedEvents[k]._recipientId = id}
  IN  recipientRemovedEvents[CHOOSE k \in ks : \A j \in ks : k <= j].blockNumber

\* startBlock was passed and is not 0
StartBlockGiven == startBlock.given /\ startBlock.value # 0

\* C20: no project in getProjects' result has isHidden and isLocked both
\* true, and every pass of the loop over a decodable RecipientAdded event
\* appends the project (removed or not) with: both flags false when no
\* RecipientRemoved event carries its id; otherwise isHidden exactly when
\* startBlock is absent or 0 or the removal block is <= startBlock, and
\* isLocked exactly when startBlock is given (non-zero) and the removal
\* block is > startBlock.
C20_GetProjects ==
  [][/\ \A k \in 1..Len(projects') : ~(projects'[k].isHidden /\ projects'[k].isLocked)
     /\ (pc = "getProjects" /\ index' = index + 1
           /\ ~JSON_parse(recipientAddedEvents[index + 1]._metadata).thrown) =>
          LET id == recipientAddedEvents[index + 1]._recipientId
              p  == projects'[Len(projects')]
          IN  /\ Len(projects') = Len(projects) + 1
              /\ SubSeq(projects', 1, Len(projects)) = projects
              /\ p.id = id
              /\ IF ~Carries(recipientRemovedEvents, id)
                 THEN p.isHidden = FALSE /\ p.isLocked = FALSE
                 ELSE /\ p.isHidden <=> (\/ ~StartBlockGiven
                                         \/ RemovalBlock(id) <= startBlock.value)
                      /\ p.isLocked <=> (/\ StartBlockGiven
                                         /\ RemovalBlock(id) > startBlock.value)
    ]_vars

\* C20 witness: getProjects returned two removed projects, the first hidden
\* (removed at startBlock) and the second locked (removed after startBlock).
C20_Witness ==
  /\ pc = "returned projects"
  /\ Len(projects) = 2
  /\ Carries(recipientRemovedEvents, projects[1].id)
  /\ Carries(recipientRemovedEvents, projects[2].id)
  /\ projects[1].isHidden /\ ~projects[1].isLocked
  /\ projects[2].isLocked /\ ~projects[2].isHidden
  /\ RemovalBlock(projects[1].id) = startBlock.value

====
